---- MODULE Spec2Model ----
(***************************************************************************)
(* Model of the J1939 identifier codec, src/messages/j1939id.py            *)
(* (class J1939ID).  One J1939ID object is modelled: its two attributes    *)
(* _cbff and _can_id, the constructor, every property setter as an action  *)
(* and every property getter as an operator on the object.                 *)
(*                                                                         *)
(* A bitarray is a sequence of 0/1, most significant bit first; the Python *)
(* slice b[i:j] is SubSeq(b, i+1, j).  A Python str is a sequence of       *)
(* one-character strings.  A call's outcome is a record: a getter returns  *)
(* Ok(v), NoneVal or Raise(e); a setter returns the object it leaves       *)
(* behind together with the error it raised ("" when it returned).         *)
(***************************************************************************)
EXTENDS Integers, Sequences, FiniteSets, TLC

VARIABLES alive, self, last

vars == <<alive, self, last>>

----------------------------------------------------------------------------
(* Program constants *)

CEFF_BITS == 29
CBFF_BITS == 11
MAX_CEFF == 536870911
MAX_CBFF == 2047
MAX_CBFF_LEN == 4
MAX_CAN_ID_LEN == 8
PGN_BITS == 24
PDU2_MIN_PF == 240
GLOBAL_DA == 255
DEFAULT_PRIORITY == 3

(* Bound of the hex strings enumerated by SpecHex *)
MaxHexLen == 8

----------------------------------------------------------------------------
(* Outcomes *)

Ok(v) == [kind |-> "value", val |-> v, err |-> ""]
NoneVal == [kind |-> "None", val |-> 0, err |-> ""]
Raise(e) == [kind |-> "raise", val |-> 0, err |-> e]

(* The exceptions of the source, named by what they report:                *)
(*   WrongFormat   ValueError("... only on CEFF ...")                      *)
(*   InvalidPgn    ValueError("the pgn requested ... not in a valid range")*)
(*   OutOfRange    ValueError("... data must be 29bits or less")           *)
(*   MalformedHex  ValueError of int(s, 16) / "... is not valid canid"     *)
(*   Overflow      OverflowError of int2ba(value, length)                  *)

----------------------------------------------------------------------------
(* bitarray.util *)

RECURSIVE ba2int(_)
ba2int(b) ==
    IF Len(b) = 0 THEN 0
    ELSE 2 * ba2int(SubSeq(b, 1, Len(b) - 1)) + b[Len(b)]

InRange(value, length) == value >= 0 /\ value < 2 ^ length

int2ba(value, length) ==
    [i \in 1..length |-> (value \div (2 ^ (length - i))) % 2]

Zeros(n) == [i \in 1..n |-> 0]

SetSlice(b, i, j, new) ==
    SubSeq(b, 1, i) \o new \o SubSeq(b, j + 1, Len(b))

reverse(b) == [i \in 1..Len(b) |-> b[Len(b) + 1 - i]]

fill(b) == b \o Zeros((8 - (Len(b) % 8)) % 8)

HexLower ==
    <<"0", "1", "2", "3", "4", "5", "6", "7",
      "8", "9", "a", "b", "c", "d", "e", "f">>

HexUpper ==
    <<"0", "1", "2", "3", "4", "5", "6", "7",
      "8", "9", "A", "B", "C", "D", "E", "F">>

RECURSIVE ba2hex(_)
ba2hex(b) ==
    IF Len(b) = 0 THEN <<>>
    ELSE <<HexLower[ba2int(SubSeq(b, 1, 4)) + 1]>>
         \o ba2hex(SubSeq(b, 5, Len(b)))

upper(s) ==
    [i \in 1..Len(s) |->
        IF \E k \in 11..16 : HexLower[k] = s[i]
        THEN HexUpper[CHOOSE k \in 11..16 : HexLower[k] = s[i]]
        ELSE s[i]]

----------------------------------------------------------------------------
(* int(s, 16) of Python, for strings of hex digits with an optional 0x     *)

IsHexDigit(c) == \E k \in 1..16 : HexLower[k] = c \/ HexUpper[k] = c

HexDigitVal(c) == (CHOOSE k \in 1..16 : HexLower[k] = c \/ HexUpper[k] = c) - 1

HasPrefix(s) ==
    Len(s) >= 2 /\ s[1] = "0" /\ (s[2] = "x" \/ s[2] = "X")

(* Python integers are unbounded.  Every value the code computes from a    *)
(* string is only compared with MAX_CBFF and MAX_CEFF, so a value whose    *)
(* next digit would take it past 16 * 2^27 > MAX_CEFF is kept as           *)
(* MAX_CEFF + 1: exact up to MAX_CEFF, and above MAX_CEFF otherwise.       *)
RECURSIVE DigitsVal(_)
DigitsVal(s) ==
    IF Len(s) = 0 THEN 0
    ELSE LET high == DigitsVal(SubSeq(s, 1, Len(s) - 1))
         IN  IF high >= 2 ^ 27 THEN MAX_CEFF + 1
             ELSE 16 * high + HexDigitVal(s[Len(s)])

int16(s) ==
    LET body == IF HasPrefix(s) THEN SubSeq(s, 3, Len(s)) ELSE s
    IN  IF Len(body) > 0 /\ \A i \in 1..Len(body) : IsHexDigit(body[i])
        THEN Ok(DigitsVal(body))
        ELSE Raise("MalformedHex")

----------------------------------------------------------------------------
(* Property getters.  o is the object [cbff, can_id]. *)

priority(o) == Ok(ba2int(SubSeq(o.can_id, 1, 3)))

edp_none(o) ==
    IF ~o.cbff THEN Ok(ba2int(SubSeq(o.can_id, 4, 4)))
    ELSE NoneVal

edp(o) ==
    IF ~o.cbff THEN Ok(ba2int(SubSeq(o.can_id, 4, 4)))
    ELSE Raise("WrongFormat")

dp(o) ==
    IF ~o.cbff THEN Ok(ba2int(SubSeq(o.can_id, 5, 5)))
    ELSE Raise("WrongFormat")

pf(o) ==
    IF ~o.cbff THEN Ok(ba2int(SubSeq(o.can_id, 6, 13)))
    ELSE Raise("WrongFormat")

ps(o) ==
    IF ~o.cbff THEN Ok(ba2int(SubSeq(o.can_id, 14, 21)))
    ELSE Raise("WrongFormat")

sa(o) ==
    IF ~o.cbff THEN Ok(ba2int(SubSeq(o.can_id, 22, 29)))
    ELSE Ok(ba2int(SubSeq(o.can_id, 4, 11)))

type(o) ==
    IF ~o.cbff
    THEN IF pf(o).val # 0 /\ pf(o).val < PDU2_MIN_PF THEN Ok(1) ELSE Ok(2)
    ELSE Raise("WrongFormat")

da(o) ==
    IF ~o.cbff
    THEN IF type(o).val = 1 THEN ps(o) ELSE Ok(GLOBAL_DA)
    ELSE NoneVal

pgn(o) ==
    IF ~o.cbff
    THEN LET b0 == Zeros(PGN_BITS)
             b1 == SetSlice(b0, 6, 7, int2ba(edp(o).val, 1))
             b2 == SetSlice(b1, 7, 8, int2ba(dp(o).val, 1))
             b3 == SetSlice(b2, 8, 16, int2ba(pf(o).val, 8))
             b4 == IF type(o).val = 1
                   THEN SetSlice(b3, 16, 24, Zeros(8))
                   ELSE SetSlice(b3, 16, 24, int2ba(ps(o).val, 8))
         IN  Ok(ba2int(b4))
    ELSE Raise("WrongFormat")

hex_rightpad(o) == upper(ba2hex(fill(o.can_id)))

hex(o) == upper(ba2hex(reverse(fill(reverse(o.can_id)))))

bin(o) == o.can_id

cbff(o) == o.cbff

----------------------------------------------------------------------------
(* Property setters: the object left behind, the error raised ("" when the *)
(* setter returned) and whether the warning was printed.                   *)

Done(o) == [obj |-> o, err |-> "", warn |-> FALSE]
Fail(o, e) == [obj |-> o, err |-> e, warn |-> FALSE]

Write(o, i, j, value) ==
    IF InRange(value, j - i)
    THEN Done([o EXCEPT !.can_id = SetSlice(@, i, j, int2ba(value, j - i))])
    ELSE Fail(o, "Overflow")

set_priority(o, value) == Write(o, 0, 3, value)

set_edp(o, value) ==
    IF ~o.cbff THEN Write(o, 3, 4, value) ELSE Fail(o, "WrongFormat")

set_dp(o, value) ==
    IF ~o.cbff THEN Write(o, 4, 5, value) ELSE Fail(o, "WrongFormat")

set_pf_shifted(o, value) ==
    IF ~o.cbff THEN Write(o, 4, 12, value) ELSE Fail(o, "WrongFormat")

set_pf(o, value) ==
    IF ~o.cbff THEN Write(o, 5, 13, value) ELSE Fail(o, "WrongFormat")

set_ps(o, value) ==
    IF ~o.cbff THEN Write(o, 13, 21, value) ELSE Fail(o, "WrongFormat")

set_sa(o, value) ==
    IF ~o.cbff THEN Write(o, 21, 29, value) ELSE Write(o, 3, 11, value)

set_da(o, value) ==
    IF ~o.cbff
    THEN IF type(o).val = 1
         THEN set_ps(o, value)
         ELSE [set_ps(o, value) EXCEPT !.warn = TRUE]
    ELSE Fail(o, "WrongFormat")

set_pgn_no_ps(o, value) ==
    LET written ==
            IF ~o.cbff
            THEN IF InRange(value, PGN_BITS)
                 THEN LET pgn_bits == int2ba(value, PGN_BITS)
                          c1 == SetSlice(o.can_id, 3, 4, SubSeq(pgn_bits, 7, 7))
                          c2 == SetSlice(c1, 4, 5, SubSeq(pgn_bits, 8, 8))
                          c3 == SetSlice(c2, 5, 13, SubSeq(pgn_bits, 9, 16))
                      IN  Done([o EXCEPT !.can_id = c3])
                 ELSE Fail(o, "Overflow")
            ELSE Done(o)
    IN  IF written.err # "" THEN written
        ELSE IF pgn(written.obj).kind = "raise"
             THEN Fail(written.obj, pgn(written.obj).err)
             ELSE IF pgn(written.obj).val # value
                  THEN Fail(written.obj, "InvalidPgn")
                  ELSE written

set_pgn_rollback(o, value) ==
    LET written ==
            IF ~o.cbff
            THEN IF InRange(value, PGN_BITS)
                 THEN LET pgn_bits == int2ba(value, PGN_BITS)
                          c1 == SetSlice(o.can_id, 3, 4, SubSeq(pgn_bits, 7, 7))
                          c2 == SetSlice(c1, 4, 5, SubSeq(pgn_bits, 8, 8))
                          c3 == SetSlice(c2, 5, 13, SubSeq(pgn_bits, 9, 16))
                          c4 == SetSlice(c3, 13, 21, SubSeq(pgn_bits, 17, 24))
                      IN  Done([o EXCEPT !.can_id = c4])
                 ELSE Fail(o, "Overflow")
            ELSE Done(o)
    IN  IF written.err # "" THEN written
        ELSE IF pgn(written.obj).kind = "raise"
             THEN Fail(written.obj, pgn(written.obj).err)
             ELSE IF pgn(written.obj).val # value
                  THEN Fail(o, "InvalidPgn")
                  ELSE written

set_pgn(o, value) ==
    LET written ==
            IF ~o.cbff
            THEN IF InRange(value, PGN_BITS)
                 THEN LET pgn_bits == int2ba(value, PGN_BITS)
                          c1 == SetSlice(o.can_id, 3, 4, SubSeq(pgn_bits, 7, 7))
                          c2 == SetSlice(c1, 4, 5, SubSeq(pgn_bits, 8, 8))
                          c3 == SetSlice(c2, 5, 13, SubSeq(pgn_bits, 9, 16))
                          c4 == SetSlice(c3, 13, 21, SubSeq(pgn_bits, 17, 24))
                      IN  Done([o EXCEPT !.can_id = c4])
                 ELSE Fail(o, "Overflow")
            ELSE Done(o)
    IN  IF written.err # "" THEN written
        ELSE IF pgn(written.obj).kind = "raise"
             THEN Fail(written.obj, pgn(written.obj).err)
             ELSE IF pgn(written.obj).val # value
                  THEN Fail(written.obj, "InvalidPgn")
                  ELSE written

set_can_id(o, value) ==
    LET v == IF Len(value) >= 2 /\ value[1] = "0" /\ value[2] = "x"
             THEN SubSeq(value, 3, Len(value))
             ELSE value
        n == IF o.cbff THEN CBFF_BITS ELSE CEFF_BITS
        x == int16(v)
    IN  IF Len(v) > MAX_CAN_ID_LEN THEN Fail(o, "MalformedHex")
        ELSE IF x.kind = "raise" THEN Fail(o, x.err)
        ELSE IF ~InRange(x.val, n) THEN Fail(o, "Overflow")
        ELSE Done([o EXCEPT !.can_id = int2ba(x.val, n)])

----------------------------------------------------------------------------
(* The constructor: the object built, or the error that leaves none.       *)

NoObject == [cbff |-> FALSE, can_id |-> <<>>]

init(can_id, priority_, pgn_, sa_, da_, cbff_) ==
    IF Len(can_id) = 0
    THEN LET o0 == [cbff |-> cbff_,
                    can_id |-> IF cbff_ THEN Zeros(CBFF_BITS)
                                        ELSE Zeros(CEFF_BITS)]
             r1 == set_priority(o0, priority_)
             r2 == set_pgn(r1.obj, pgn_)
             r3 == set_sa(r2.obj, sa_)
         IN  IF r1.err # "" THEN r1
             ELSE IF r2.err # "" THEN r2
             ELSE IF r3.err # "" THEN r3
             ELSE IF type(r3.obj).kind = "raise"
                  THEN Fail(r3.obj, type(r3.obj).err)
             ELSE IF type(r3.obj).val = 1 THEN set_da(r3.obj, da_)
             ELSE r3
    ELSE LET n == int16(can_id)
         IN  IF n.kind = "raise" THEN Fail(NoObject, n.err)
             ELSE IF n.val > MAX_CEFF THEN Fail(NoObject, "OutOfRange")
             ELSE IF Len(can_id) <= MAX_CBFF_LEN /\ n.val <= MAX_CBFF
                  THEN Done([cbff |-> TRUE,
                             can_id |-> int2ba(n.val, CBFF_BITS)])
             ELSE Done([cbff |-> cbff_,
                        can_id |-> int2ba(n.val, CEFF_BITS)])

----------------------------------------------------------------------------
(* Inputs of the calls *)

PriorityVals == {0, 7, 8}
BitVals == {0, 1, 2}
PfVals == {0, 239, 240, 256}
PsVals == {0, 52, 256}
SaVals == {0, 255, 256}

pgn_of(top, e, d, f, l) ==
    top * (2 ^ 18) + e * (2 ^ 17) + d * (2 ^ 16) + f * (2 ^ 8) + l

PgnVals ==
    { pgn_of(0, e, d, f, l) :
        e \in {0, 1}, d \in {0, 1}, f \in {0, 239, 240}, l \in {0, 52} }
    \cup {pgn_of(1, 0, 0, 240, 0), 2 ^ PGN_BITS}

HexSamples ==
    { <<"7", "F", "F">>,
      <<"8", "0", "0">>,
      <<"0", "x", "7", "F", "F">>,
      <<"0", "0", "0", "0", "0", "7", "F", "F">>,
      <<"1", "8", "E", "E", "F", "F", "0", "0">>,
      <<"0", "x", "1", "8", "f", "e", "f", "1", "0", "0">>,
      <<"2", "0", "0", "0", "0", "0", "0", "0">>,
      <<"0", "0", "0", "0", "0", "0", "0", "3", "4">>,
      <<"7", "G">> }

HexAlphabet == {"0", "1", "f"}

HexStrings ==
    LET digits == UNION { [1..n -> HexAlphabet] : n \in 1..MaxHexLen }
    IN  digits \cup { <<"0", "x">> \o d : d \in digits } \cup HexSamples

----------------------------------------------------------------------------
(* State: whether an object exists, the object, and the last call made     *)

NoCall ==
    [op |-> "none", can_id |-> <<>>, value |-> 0, priority |-> 0, pgn |-> 0,
     sa |-> 0, da |-> 0, cbff |-> FALSE, err |-> "", warn |-> FALSE]

Init ==
    /\ alive = FALSE
    /\ self = NoObject
    /\ last = NoCall

(* The constructor runs once; when it raises there is no object *)
Unbuilt == ~alive /\ last.op = "none"

Construct(can_id, priority_, pgn_, sa_, da_, cbff_) ==
    LET r == init(can_id, priority_, pgn_, sa_, da_, cbff_)
    IN  /\ alive' = (r.err = "")
        /\ self' = IF r.err = "" THEN r.obj ELSE NoObject
        /\ last' = [op |-> "init", can_id |-> can_id, value |-> 0,
                    priority |-> priority_, pgn |-> pgn_, sa |-> sa_,
                    da |-> da_, cbff |-> cbff_, err |-> r.err,
                    warn |-> r.warn]

NewFromHex ==
    /\ Unbuilt
    /\ \E can_id \in HexSamples, cbff_ \in BOOLEAN :
        Construct(can_id, DEFAULT_PRIORITY, 0, 0, 0, cbff_)

NewFromComponents ==
    /\ Unbuilt
    /\ \E priority_ \in PriorityVals, pgn_ \in PgnVals, sa_ \in SaVals,
          da_ \in PsVals, cbff_ \in BOOLEAN :
        Construct(<<>>, priority_, pgn_, sa_, da_, cbff_)

NewFromHexString ==
    /\ Unbuilt
    /\ \E can_id \in HexStrings :
        Construct(can_id, DEFAULT_PRIORITY, 0, 0, 0, FALSE)

Setter(op, value, r) ==
    /\ alive
    /\ alive' = alive
    /\ self' = r.obj
    /\ last' = [NoCall EXCEPT !.op = op, !.value = value, !.err = r.err,
                              !.warn = r.warn]

SetPriority == \E v \in PriorityVals : Setter("priority", v, set_priority(self, v))
SetEdp == \E v \in BitVals : Setter("edp", v, set_edp(self, v))
SetDp == \E v \in BitVals : Setter("dp", v, set_dp(self, v))
SetPf == \E v \in PfVals : Setter("pf", v, set_pf(self, v))
SetPs == \E v \in PsVals : Setter("ps", v, set_ps(self, v))
SetSa == \E v \in SaVals : Setter("sa", v, set_sa(self, v))
SetDa == \E v \in PsVals : Setter("da", v, set_da(self, v))
SetPgn == \E v \in PgnVals : Setter("pgn", v, set_pgn(self, v))

SetCanId ==
    \E v \in HexSamples :
        LET r == set_can_id(self, v)
        IN  /\ alive
            /\ alive' = alive
            /\ self' = r.obj
            /\ last' = [NoCall EXCEPT !.op = "can_id", !.can_id = v,
                                      !.err = r.err, !.warn = r.warn]

Next ==
    \/ NewFromHex
    \/ NewFromComponents
    \/ SetPriority
    \/ SetEdp
    \/ SetDp
    \/ SetPf
    \/ SetPs
    \/ SetSa
    \/ SetDa
    \/ SetPgn
    \/ SetCanId

Spec == Init /\ [][Next]_vars

(* Construction from every hex string up to MaxHexLen digits *)
NextHex == NewFromHexString

SpecHex == Init /\ [][NextHex]_vars

----------------------------------------------------------------------------
(* Vocabulary of the properties *)

Extended == alive /\ ~self.cbff
Standard == alive /\ self.cbff

PfByte(v) == (v \div (2 ^ 8)) % (2 ^ 8)
LowByte(v) == v % (2 ^ 8)

(* v is edp, dp, pf and a low byte that is 0 when pf < 240 *)
RoundTripShaped(v) ==
    /\ InRange(v, 18)
    /\ PfByte(v) < PDU2_MIN_PF => LowByte(v) = 0

(* the digits of a hex string, without the optional 0x *)
Digits(s) == IF HasPrefix(s) THEN SubSeq(s, 3, Len(s)) ELSE s

(* v as w uppercase hex digits, zero-padded on the left *)
PaddedHex(v, w) ==
    [i \in 1..w |-> HexUpper[((v \div (16 ^ (w - i))) % 16) + 1]]

BuiltFromHex == alive /\ last.op = "init" /\ Len(last.can_id) > 0

----------------------------------------------------------------------------
(* C1: on every Extended identifier pdu_type is 1 exactly when pf < 240    *)
(* and 2 otherwise, pf = 0 included.                                       *)
C1_PduTypeByPf ==
    Extended =>
        type(self) = Ok(IF pf(self).val < PDU2_MIN_PF THEN 1 ELSE 2)

(* C2: on an Extended identifier, setting pgn to a value made of edp, dp,  *)
(* pf and a low byte that is 0 when pf < 240 (any low byte when pf >= 240) *)
(* succeeds, and the pgn getter then returns that value.                   *)
C2_PgnRoundTrip ==
    (Extended /\ last.op = "pgn" /\ RoundTripShaped(last.value)) =>
        /\ last.err = ""
        /\ pgn(self) = Ok(last.value)

C2_Witness ==
    /\ Extended
    /\ last.op = "pgn"
    /\ last.err = ""
    /\ PfByte(last.value) >= PDU2_MIN_PF
    /\ LowByte(last.value) # 0
    /\ last.value >= 2 ^ 17
    /\ pgn(self).val = last.value

(* C3: on an Extended identifier, setting pgn to a 24-bit value whose pf   *)
(* byte is in 0..239 and whose low byte is not 0 fails with InvalidPgn.    *)
C3_Type1LowByteRejected ==
    (Extended /\ last.op = "pgn" /\ InRange(last.value, PGN_BITS)
       /\ PfByte(last.value) < PDU2_MIN_PF /\ LowByte(last.value) # 0) =>
        last.err = "InvalidPgn"

(* C4: on every Extended identifier the pgn getter returns                 *)
(* edp*2^17 + dp*2^16 + pf*2^8 + low, low = 0 when pf < 240 and low = ps   *)
(* when pf >= 240; the identifier built from 18EEFF00 has pgn 60928.       *)
C4_PgnFormula ==
    /\ Extended =>
          pgn(self) =
              Ok(edp(self).val * (2 ^ 17) + dp(self).val * (2 ^ 16)
                 + pf(self).val * (2 ^ 8)
                 + (IF pf(self).val < PDU2_MIN_PF THEN 0 ELSE ps(self).val))
    /\ (BuiltFromHex
          /\ last.can_id = <<"1", "8", "E", "E", "F", "F", "0", "0">>) =>
          pgn(self).val = 60928

C6_FormatSelection ==
    BuiltFromHex =>
        (self.cbff <=>
            (Len(Digits(last.can_id)) <= MAX_CBFF_LEN
               /\ int16(last.can_id).val <= MAX_CBFF))

(* C7: for every hex string of at most 8 digits and value <= 0x1FFFFFFF,   *)
(* the identifier built from it serializes to the value zero-padded on the *)
(* left to 4 (Standard) or 8 (Extended) uppercase hex digits.              *)
C7_HexRoundTrip ==
    (BuiltFromHex /\ Len(Digits(last.can_id)) <= MAX_CAN_ID_LEN) =>
        hex(self) =
            PaddedHex(int16(last.can_id).val, IF self.cbff THEN 4 ELSE 8)

C7_Witness ==
    /\ BuiltFromHex
    /\ last.can_id = <<"7", "F", "F">>
    /\ self.cbff
    /\ hex(self) = <<"0", "7", "F", "F">>

(* C8: after any successful construction and any sequence of setter calls  *)
(* the bit sequence has 11 bits when the format is Standard and 29 when it *)
(* is Extended, its value is within 0x7FF resp. 0x1FFFFFFF, and the format *)
(* never changes.                                                          *)
C8_WidthMatchesFormat ==
    /\ [](alive =>
            /\ Len(self.can_id) = (IF self.cbff THEN CBFF_BITS ELSE CEFF_BITS)
            /\ ba2int(self.can_id)
                 <= (IF self.cbff THEN MAX_CBFF ELSE MAX_CEFF))
    /\ [][alive => self'.cbff = self.cbff]_vars

(* C9: on every Extended identifier the da getter returns ps when pf is in *)
(* 0..239 and 255 when pf is in 240..255.                                  *)
C9_DaByType ==
    Extended =>
        da(self) = (IF pf(self).val < PDU2_MIN_PF THEN ps(self)
                    ELSE Ok(GLOBAL_DA))

(* C10: constructing a Standard identifier from components (no hex string, *)
(* cbff requested), priority in 0..7 and sa in 0..255, succeeds and yields *)
(* 11 bits with priority in bits 0-2 and sa in bits 3-10.                  *)
C10_StandardFromComponents ==
    (last.op = "init" /\ Len(last.can_id) = 0 /\ last.cbff
       /\ last.pgn = 0 /\ InRange(last.priority, 3) /\ InRange(last.sa, 8)) =>
        /\ alive
        /\ last.err = ""
        /\ self.cbff
        /\ self.can_id = int2ba(last.priority, 3) \o int2ba(last.sa, 8)

----------------------------------------------------------------------------
EdpBit(v) == (v \div (2 ^ 17)) % 2
DpBit(v) == (v \div (2 ^ 16)) % 2

(* C11: an Extended identifier constructed from components (priority, pgn, *)
(* sa, da) has the priority and sa of the arguments and the edp, dp and pf *)
(* of the pgn argument; when pf < 240 (pf = 0 included) ps is the da       *)
(* argument, and when pf >= 240 ps is the low byte of pgn.                 *)
C11_ExtendedFromComponents ==
    (alive /\ last.op = "init" /\ Len(last.can_id) = 0 /\ ~last.cbff) =>
        /\ ~self.cbff
        /\ priority(self).val = last.priority
        /\ sa(self).val = last.sa
        /\ edp(self).val = EdpBit(last.pgn)
        /\ dp(self).val = DpBit(last.pgn)
        /\ pf(self).val = PfByte(last.pgn)
        /\ pgn(self).val \div (2 ^ 8) = last.pgn \div (2 ^ 8)
        /\ pf(self).val < PDU2_MIN_PF => ps(self).val = last.da
        /\ pf(self).val >= PDU2_MIN_PF => ps(self).val = LowByte(last.pgn)

(* The fields of an identifier other than the one named *)
Others(o, f) ==
    [g \in {"priority", "edp", "dp", "pf", "ps", "sa"} \ {f} |->
        IF g = "priority" THEN priority(o)
        ELSE IF g = "edp" THEN edp(o)
        ELSE IF g = "dp" THEN dp(o)
        ELSE IF g = "pf" THEN pf(o)
        ELSE IF g = "ps" THEN ps(o)
        ELSE sa(o)]

Field(o, f) ==
    IF f = "priority" THEN priority(o)
    ELSE IF f = "edp" THEN edp(o)
    ELSE IF f = "dp" THEN dp(o)
    ELSE IF f = "pf" THEN pf(o)
    ELSE IF f = "ps" THEN ps(o)
    ELSE sa(o)

FieldWidth(f) ==
    IF f = "priority" THEN 3
    ELSE IF f = "edp" \/ f = "dp" THEN 1
    ELSE 8

(* C12: on an Extended identifier, setting one of priority, edp, dp, pf,   *)
(* ps, sa to a value that fits its width makes its getter return the value *)
(* and leaves the other five fields as they were; on a Standard identifier *)
(* the same holds between priority and sa.                                 *)
C12_FieldWriteFrame ==
    [][ (alive /\ last'.op \in (IF self.cbff
                                THEN {"priority", "sa"}
                                ELSE {"priority", "edp", "dp", "pf", "ps", "sa"})
           /\ InRange(last'.value, FieldWidth(last'.op))) =>
          /\ last'.err = ""
          /\ Field(self', last'.op) = Ok(last'.value)
          /\ IF self.cbff
             THEN /\ last'.op = "priority" => sa(self') = sa(self)
                  /\ last'.op = "sa" => priority(self') = priority(self)
             ELSE Others(self', last'.op) = Others(self, last'.op) ]_vars

C12_Witness ==
    /\ Extended
    /\ last.op = "pf"
    /\ last.err = ""
    /\ last.value = 239
    /\ pf(self).val = 239
    /\ ps(self).val = 52
    /\ dp(self).val = 1
    /\ sa(self).val = 255

(* C13: when setting pgn to v in 0..2^24-1 on an Extended identifier fails *)
(* with InvalidPgn the write stays: edp, dp, pf and ps are bit 6, bit 7,   *)
(* bits 8-15 and bits 16-23 of v, and priority and sa are as before.       *)
C13_FailedPgnWriteStays ==
    [][ (alive /\ ~self.cbff /\ last'.op = "pgn"
           /\ InRange(last'.value, PGN_BITS)
           /\ last'.err = "InvalidPgn") =>
          /\ edp(self').val = EdpBit(last'.value)
          /\ dp(self').val = DpBit(last'.value)
          /\ pf(self').val = PfByte(last'.value)
          /\ ps(self').val = LowByte(last'.value)
          /\ priority(self') = priority(self)
          /\ sa(self') = sa(self) ]_vars

C13_Witness ==
    /\ Extended
    /\ last.op = "pgn"
    /\ last.err = "InvalidPgn"
    /\ PfByte(last.value) = 239
    /\ LowByte(last.value) = 52
    /\ pf(self).val = 239
    /\ ps(self).val = 52
    /\ sa(self).val = 255

====
